---- MODULE Spec2Model ----
(***************************************************************************)
(* Model of micro_sam's volume propagation (_segment_volume in             *)
(* sam_annotator/annotator_3d.py) and of its embedding cache               *)
(* (precompute_image_embeddings and set_precomputed in util.py).           *)
(*                                                                         *)
(* Three specifications share the module:                                  *)
(*   SpecVol   one call of _segment_volume, one oracle call per step       *)
(*   SpecEmb   runs of precompute_image_embeddings on one zarr container,  *)
(*             with process kills and restarts                             *)
(*   SpecBind  one call of set_precomputed                                 *)
(* The variables of the other specifications stay at their idle values.    *)
(***************************************************************************)
EXTENDS Integers, Sequences, FiniteSets, TLC

\* ------------------------------------------------------------------ bounds
\* The projection argument only selects use_mask / use_box of the oracle
\* call, and the oracle is any function of its arguments here, so it is
\* left out.

\* number of slices of the volume (seg.shape[0])
Depth == 5

\* the pixels of one slice; a mask is the set of its foreground (== 1) pixels
Pixels == {"p11", "p22"}
Masks == SUBSET Pixels
EmptyMask == {}

\* iou_threshold, in hundredths: the values 0.0 and 0.99
Thresholds == {0, 99}

Slices == 0 .. (Depth - 1)

\* number of slices of the volume whose embeddings are cached (input_.shape[0])
EmbDepth == 3

\* an embedding is a number 0 .. MaxEmbedding; 0 is the all-zero embedding,
\* the one with np.count_nonzero(emb) == 0, which is also what an unwritten
\* chunk of the zarr dataset reads as
MaxEmbedding == 2
Embeddings == 0 .. MaxEmbedding

\* calls of precompute_image_embeddings on the same container in one behaviour
MaxCalls == 4

\* the (height, width) of the image or of every slice of the volume
Shapes == {<<1, 1>>, <<1, 2>>}

\* Python's None, for a size or for the index i
None == <<>>
\* no "features" dataset in the container
NoDataset == <<>>

VARIABLES
    \* ---- _segment_volume
    seg,               \* the output volume: slice index -> mask, mutated in place
    segmented_slices,  \* the annotated slice indices, ascending
    stop_lower,
    stop_upper,
    iou_threshold,
    progress_bar,      \* number of progress_bar.update(1) calls made
    pc,                \* position in _segment_volume
    gap,               \* index of the pair (segmented_slices[gap], segmented_slices[gap+1])
    walk,              \* the frame of the running segment_range call
    calls,             \* history: the oracle calls made so far, in order
    seg_in,            \* history: the volume as passed in
    \* ---- precompute_image_embeddings
    ndim,              \* 2 or 3
    embedding_of,      \* what the encoder returns for slice z + 1 of input_
    image_shape,       \* input_.shape[-2:], the same for every slice
    store_features,    \* f["features"]: NoDataset, or one embedding per chunk
    store_attrs,       \* f.attrs: attribute name -> value
    epc,               \* position in _precompute_3d
    loop_z,            \* the loop variable z of line 196
    features,          \* the local features: "None" or "dataset"
    original_size,     \* the local original_size
    input_size,        \* the local input_size
    embedding,         \* the local embedding
    returned,          \* the image_embeddings last returned
    n_calls,           \* history: calls started so far
    encoder_calls,     \* history: slices the encoder ran on in this call
    size_from,         \* history: slice the local sizes were read at
    start_features,    \* history: store_features when this call began
    first_done,        \* history: container and result at the first return
    \* ---- set_precomputed
    predictor,
    image_embeddings,
    index_i,           \* the argument i: None, or <<k>> for the index k
    bind_pc,
    predictor_in       \* history: the predictor as passed in

volVars == <<seg, segmented_slices, stop_lower, stop_upper, iou_threshold,
             progress_bar, pc, gap, walk, calls, seg_in>>

embVars == <<ndim, embedding_of, image_shape, store_features, store_attrs, epc, loop_z,
             features, original_size, input_size, embedding, returned, n_calls,
             encoder_calls, size_from, start_features, first_done>>

bindVars == <<predictor, image_embeddings, index_i, bind_pc, predictor_in>>

vars == <<volVars, embVars, bindVars>>

\* ------------------------------------------------------------ pure helpers

\* util.compute_iou: overlap and union counts; the quotient
\* overlap / (union + 1e-7) is compared by IouLess
compute_iou(mask1, mask2) ==
    [overlap |-> Cardinality(mask1 \cap mask2),
     union   |-> Cardinality(mask1 \cup mask2)]

\* variant of IouLess: iou <= threshold, without the eps
IouLess_or_equal(iou, t) == 100 * iou.overlap - t * iou.union <= 0

\* iou < threshold, for threshold = t / 100 with 0 <= t <= 100:
\*   overlap / (union + eps) < t / 100
\*   <=> 100 * overlap - t * union < t * eps,      0 <= t * eps < 1,
\* and the left side is an integer, so it is < 0, or = 0 with t > 0.
IouLess(iou, t) ==
    LET diff == 100 * iou.overlap - t * iou.union
    IN  diff < 0 \/ (diff = 0 /\ t > 0)

\* variant of stopping_criterion: np.less_equal where np.less is passed
stopping_criterion_less_is_less_equal(crit, z, z_stop) ==
    CASE crit = "less"          -> z <= z_stop
      [] crit = "less_equal"    -> z <= z_stop
      [] crit = "greater"       -> z > z_stop
      [] crit = "greater_equal" -> z >= z_stop

\* the numpy comparison passed as stopping_criterion
stopping_criterion(crit, z, z_stop) ==
    CASE crit = "less"          -> z < z_stop
      [] crit = "less_equal"    -> z <= z_stop
      [] crit = "greater"       -> z > z_stop
      [] crit = "greater_equal" -> z >= z_stop

\* variant of logical_or: np.logical_and, the pixels common to both masks
logical_and(mask1, mask2) == mask1 \cap mask2

\* np.logical_or(seg[a] == 1, seg[b] == 1)
logical_or(mask1, mask2) == mask1 \cup mask2

\* the ascending sequence of a set of slice indices
SortedSeq(S) ==
    CHOOSE s \in [1 .. Cardinality(S) -> S] :
        \A i, j \in 1 .. Cardinality(S) : i < j => s[i] < s[j]

z0 == segmented_slices[1]
z1 == segmented_slices[Len(segmented_slices)]

\* the loop variables of "for z_start, z_stop in zip(...)"
z_start == segmented_slices[gap]
z_stop == segmented_slices[gap + 1]
slice_diff == z_stop - z_start
z_mid == (z_start + z_stop) \div 2

InGapLoop == pc = "between" /\ z0 # z1 /\ gap < Len(segmented_slices)

\* where _segment_volume continues once the pair at gap is done: the next
\* pair of the for loop (line 76), or the return (line 113)
AfterGap == IF gap + 1 < Len(segmented_slices) THEN "between" ELSE "done"

\* the continuation after a segment_range call or a combined call; "next"
\* stands for the end of the loop body
Resume(ret) ==
    /\ pc' = (IF ret = "next" THEN AfterGap ELSE ret)
    /\ gap' = (IF ret = "next" THEN gap + 1 ELSE gap)

NoWalk ==
    [z_start |-> 0, z_stop |-> 0, increment |-> 0, crit |-> "none",
     use_threshold |-> FALSE, z |-> 0, ret |-> "none", phase |-> "none"]

\* the frame of segment_range(z_start, z_stop, increment, crit, threshold):
\* line 42 sets z; ret is where _segment_volume continues after the call
Range(zs, ze, inc, crit, use_thr, ret, phase) ==
    [z_start |-> zs, z_stop |-> ze, increment |-> inc, crit |-> crit,
     use_threshold |-> use_thr, z |-> zs + inc, ret |-> ret, phase |-> phase]

Call(z, from, prompt, out, failed, written, phase) ==
    [z |-> z, from |-> from, prompt |-> prompt, out |-> out,
     failed |-> failed, written |-> written, phase |-> phase]

\* variant of bottom_criterion: np.greater whatever the parity
bottom_criterion_always_greater == "greater"

\* the criterion of the walk from the bottom of a gap (line 99)
bottom_criterion == IF slice_diff % 2 = 0 THEN "greater_equal" ELSE "greater"

\* variant of interpolation_threshold: iou_threshold passed to the walks
\* inside a gap too
interpolation_threshold_set == TRUE

\* the threshold of the walks inside a gap: the default threshold=None of
\* segment_range (line 41), so that no IOU is computed (line 49)
interpolation_threshold == FALSE

\* variant of lower_is_stop: the branch of line 83 is never taken
lower_is_stop_ignored == FALSE

\* line 83: the lower slice of the pair is a stop slice
lower_is_stop == z_start = z0 /\ stop_lower

\* line 86: the upper slice of the pair is a stop slice
upper_is_stop == z_stop = z1 /\ stop_upper

\* ------------------------------------------------------------------- Init

NoReturn == [features |-> NoDataset, input_size |-> None, original_size |-> None]
NotYet ==
    [done |-> FALSE, call |-> 0, features |-> NoDataset, attrs |-> <<>>,
     result |-> NoReturn]
NoPredictor ==
    [features |-> NoDataset, original_size |-> None, input_size |-> None,
     is_image_set |-> FALSE]

IdleVol ==
    /\ seg = [s \in Slices |-> EmptyMask]
    /\ seg_in = seg
    /\ segmented_slices = <<0>>
    /\ stop_lower = FALSE
    /\ stop_upper = FALSE
    /\ iou_threshold = 0
    /\ progress_bar = 0
    /\ pc = "idle"
    /\ gap = 1
    /\ walk = NoWalk
    /\ calls = <<>>

IdleEmb ==
    /\ ndim = 3
    /\ embedding_of = <<>>
    /\ image_shape = <<1, 1>>
    /\ store_features = NoDataset
    /\ store_attrs = <<>>
    /\ epc = "idle"
    /\ loop_z = 0
    /\ features = "None"
    /\ original_size = None
    /\ input_size = None
    /\ embedding = 0
    /\ returned = NoReturn
    /\ n_calls = 0
    /\ encoder_calls = <<>>
    /\ size_from = None
    /\ start_features = NoDataset
    /\ first_done = NotYet

IdleBind ==
    /\ predictor = NoPredictor
    /\ image_embeddings = NoReturn
    /\ index_i = None
    /\ bind_pc = "idle"
    /\ predictor_in = NoPredictor

InitVol ==
    /\ IdleEmb
    /\ IdleBind
    /\ \E S \in (SUBSET Slices) \ {{}} :
         /\ segmented_slices = SortedSeq(S)
         /\ seg \in {f \in [Slices -> Masks] : \A z \in Slices \ S : f[z] = EmptyMask}
    /\ seg_in = seg
    /\ stop_lower \in BOOLEAN
    /\ stop_upper \in BOOLEAN
    /\ iou_threshold \in Thresholds
    /\ progress_bar = 0
    /\ pc = "below"
    /\ gap = 1
    /\ walk = NoWalk
    /\ calls = <<>>

\* ---------------------------------------------------------------- actions

\* lines 65-67: segment below the min slice
SegmentBelow ==
    /\ pc = "below"
    /\ IF z0 > 0 /\ ~stop_lower
         THEN /\ walk' = Range(z0, 0, -1, "less", TRUE, "above", "below")
              /\ pc' = "range"
         ELSE /\ pc' = "above"
              /\ walk' = walk
    /\ UNCHANGED <<seg, segmented_slices, stop_lower, stop_upper, iou_threshold,
                   progress_bar, gap, calls, seg_in,
                   embVars, bindVars>>

\* lines 69-71: segment above the max slice
SegmentAbove ==
    /\ pc = "above"
    /\ IF z1 < Depth - 1 /\ ~stop_upper
         THEN /\ walk' = Range(z1, Depth - 1, 1, "greater", TRUE, "between", "above")
              /\ pc' = "range"
         ELSE /\ pc' = "between"
              /\ walk' = walk
    /\ UNCHANGED <<seg, segmented_slices, stop_lower, stop_upper, iou_threshold,
                   progress_bar, gap, calls, seg_in,
                   embVars, bindVars>>

\* variant of OracleFails: the exception is caught and the call made again
OracleFailsRetried(c) ==
    /\ calls' = Append(calls, c)
    /\ UNCHANGED <<seg, progress_bar, walk, pc, gap>>

\* segment_from_mask raises (lines 47, 92, 109): nothing catches the
\* exception, so it leaves _segment_volume
OracleFails(c) ==
    /\ calls' = Append(calls, c)
    /\ pc' = "failed"
    /\ UNCHANGED <<seg, progress_bar, walk, gap>>

\* variant of prompt_slice: every slice of a walk is prompted from the slice
\* the walk started at
prompt_slice_is_start == walk.z_start

\* line 46: the slice whose mask prompts slice z, seg[z - increment]
prompt_slice == walk.z - walk.increment

\* lines 41-61: one iteration of the while loop of segment_range
segment_range ==
    /\ pc = "range"
    /\ LET z == walk.z
           seg_prev == seg[prompt_slice]
       IN
       \/ OracleFails(Call(z, {prompt_slice}, seg_prev, EmptyMask,
                            TRUE, FALSE, walk.phase))
       \/ \E seg_z \in Masks :
            IF walk.use_threshold /\ IouLess(compute_iou(seg_prev, seg_z), iou_threshold)
              THEN \* lines 51-54: break before the write
                   /\ calls' = Append(calls, Call(z, {prompt_slice}, seg_prev, seg_z,
                                                  FALSE, FALSE, walk.phase))
                   /\ Resume(walk.ret)
                   /\ walk' = NoWalk
                   /\ UNCHANGED <<seg, progress_bar>>
              ELSE /\ calls' = Append(calls, Call(z, {prompt_slice}, seg_prev, seg_z,
                                                  FALSE, TRUE, walk.phase))
                   /\ seg' = [seg EXCEPT ![z] = seg_z]
                   /\ IF stopping_criterion(walk.crit, z + walk.increment, walk.z_stop)
                        THEN /\ Resume(walk.ret)
                             /\ walk' = NoWalk
                             /\ progress_bar' = progress_bar
                        ELSE /\ UNCHANGED <<pc, gap>>
                             /\ walk' = [walk EXCEPT !.z = z + walk.increment]
                             /\ progress_bar' = progress_bar + 1
    /\ UNCHANGED <<segmented_slices, stop_lower, stop_upper, iou_threshold, seg_in,
                   embVars, bindVars>>

\* lines 80-81: the slices are adjacent
GapAdjacent ==
    /\ InGapLoop
    /\ slice_diff = 1
    /\ Resume("next")
    /\ UNCHANGED <<seg, segmented_slices, stop_lower, stop_upper, iou_threshold,
                   progress_bar, walk, calls, seg_in,
                   embVars, bindVars>>

\* lines 83-84: the lower slice is stop, segment from upper
GapFromUpper ==
    /\ InGapLoop
    /\ slice_diff # 1
    /\ lower_is_stop
    /\ walk' = Range(z_stop, z_start, -1, "less_equal", interpolation_threshold,
                     "next", "from_upper")
    /\ pc' = "range"
    /\ UNCHANGED <<seg, segmented_slices, stop_lower, stop_upper, iou_threshold,
                   progress_bar, gap, calls, seg_in,
                   embVars, bindVars>>

\* lines 86-87: the upper slice is stop, segment from lower
GapFromLower ==
    /\ InGapLoop
    /\ slice_diff # 1
    /\ ~lower_is_stop
    /\ upper_is_stop
    /\ walk' = Range(z_start, z_stop, 1, "greater_equal", interpolation_threshold,
                     "next", "from_lower")
    /\ pc' = "range"
    /\ UNCHANGED <<seg, segmented_slices, stop_lower, stop_upper, iou_threshold,
                   progress_bar, gap, calls, seg_in,
                   embVars, bindVars>>

GapGeneral ==
    /\ InGapLoop
    /\ slice_diff # 1
    /\ ~lower_is_stop
    /\ ~upper_is_stop

\* a call of segment_from_mask with the combined mask of slices a and b as
\* prompt, written to slice z, then _update_progress()
CombinedCall(z, a, b, phase) ==
    LET seg_prompt == logical_or(seg[a], seg[b])
    IN  \/ OracleFails(Call(z, {a, b}, seg_prompt, EmptyMask, TRUE, FALSE, phase))
        \/ \E seg_z \in Masks :
             /\ calls' = Append(calls, Call(z, {a, b}, seg_prompt, seg_z,
                                            FALSE, TRUE, phase))
             /\ seg' = [seg EXCEPT ![z] = seg_z]
             /\ progress_bar' = progress_bar + 1
             /\ Resume("next")
             /\ walk' = walk

\* lines 89-94: one slice in between, use the combined mask
GapCombined ==
    /\ GapGeneral
    /\ slice_diff = 2
    /\ CombinedCall(z_start + 1, z_start, z_stop, "combined")
    /\ UNCHANGED <<segmented_slices, stop_lower, stop_upper, iou_threshold, seg_in,
                   embVars, bindVars>>

\* lines 97-100: segment from bottom
GapBottom ==
    /\ GapGeneral
    /\ slice_diff # 2
    /\ walk' = Range(z_start, z_mid, 1, bottom_criterion, interpolation_threshold,
                     "top", "bottom")
    /\ pc' = "range"
    /\ UNCHANGED <<seg, segmented_slices, stop_lower, stop_upper, iou_threshold,
                   progress_bar, gap, calls, seg_in,
                   embVars, bindVars>>

\* lines 101-102: segment from top; line 107 decides what follows the walk
GapTop ==
    /\ pc = "top"
    /\ walk' = Range(z_stop, z_mid, -1, "less_equal", interpolation_threshold,
                     IF slice_diff % 2 = 0 THEN "middle" ELSE "next", "top")
    /\ pc' = "range"
    /\ UNCHANGED <<seg, segmented_slices, stop_lower, stop_upper, iou_threshold,
                   progress_bar, gap, calls, seg_in,
                   embVars, bindVars>>

\* lines 108-111: the middle slice of an even gap
GapMiddle ==
    /\ pc = "middle"
    /\ CombinedCall(z_mid, z_mid - 1, z_mid + 1, "middle")
    /\ UNCHANGED <<segmented_slices, stop_lower, stop_upper, iou_threshold, seg_in,
                   embVars, bindVars>>

\* line 75 is false, or there is one annotated slice: return seg (line 113)
Return ==
    /\ pc = "between"
    /\ ~InGapLoop
    /\ pc' = "done"
    /\ UNCHANGED <<seg, segmented_slices, stop_lower, stop_upper, iou_threshold,
                   progress_bar, gap, walk, calls, seg_in,
                   embVars, bindVars>>

NextVol ==
    \/ SegmentBelow
    \/ SegmentAbove
    \/ segment_range
    \/ GapAdjacent
    \/ GapFromUpper
    \/ GapFromLower
    \/ GapCombined
    \/ GapBottom
    \/ GapTop
    \/ GapMiddle
    \/ Return

SpecVol == InitVol /\ [][NextVol]_vars

\* ---------------------------------------------- precompute_image_embeddings
\* The container is a zarr group opened in mode "a": a dataset "features"
\* with one chunk per slice (3D) or one block (2D), and attributes. A chunk
\* that was never written reads as zeros. lazy_loading only decides whether
\* the returned features are the dataset or a copy of its values, so the
\* returned features are modelled by their values.

NumChunks == IF ndim = 3 THEN EmbDepth ELSE 1

NoAttrs == [k \in {} |-> None]
SetAttr(attrs, key, value) ==
    [k \in (DOMAIN attrs) \cup {key} |-> IF k = key THEN value ELSE attrs[k]]

\* predictor.original_size after predictor.set_image(image)
predictor_original_size == image_shape

\* the input size the predictor reports for an image of a shape: the shape
\* scaled so that its longest side is the encoder's 1024
InputSizeOf(shape) ==
    LET longest == IF shape[1] > shape[2] THEN shape[1] ELSE shape[2]
    IN  <<(shape[1] * 1024) \div longest, (shape[2] * 1024) \div longest>>

\* predictor.input_size after predictor.set_image(image)
predictor_input_size == InputSizeOf(image_shape)

\* predictor.get_image_embedding() after set_image on slice z
get_image_embedding(slice) == embedding_of[slice + 1]

\* _compute_3d: the features of a run without a container
compute_3d_features == [k \in 1 .. EmbDepth |-> get_image_embedding(k - 1)]

\* variant of chunk_computed: every chunk of an existing dataset counts as
\* computed
chunk_computed_whenever_dataset_exists(slice) == TRUE

\* line 199: np.count_nonzero(features[z]) != 0
chunk_computed(slice) == store_features[slice + 1] # 0

\* variant of container_complete: the attributes are never looked at
container_complete_never == FALSE

\* lines 139 and 188: "input_size" in f.attrs
container_complete == "input_size" \in DOMAIN store_attrs

InitEmb ==
    /\ IdleVol
    /\ IdleBind
    /\ ndim \in {2, 3}
    /\ embedding_of \in [1 .. NumChunks -> Embeddings]
    /\ image_shape \in Shapes
    /\ store_features = NoDataset
    /\ store_attrs = NoAttrs
    /\ epc = "idle"
    /\ loop_z = 0
    /\ features = "None"
    /\ original_size = None
    /\ input_size = None
    /\ embedding = 0
    /\ returned = NoReturn
    /\ n_calls = 0
    /\ encoder_calls = <<>>
    /\ size_from = None
    /\ start_features = NoDataset
    /\ first_done = NotYet

CanCall == epc \in {"idle", "done", "killed", "error"} /\ n_calls < MaxCalls

Snapshot(call, dataset, attrs, result) ==
    IF first_done.done THEN first_done
    ELSE [done |-> TRUE, call |-> call, features |-> dataset, attrs |-> attrs,
          result |-> result]

\* lines 136-154: _precompute_2d, in one step
precompute_2d ==
    /\ ndim = 2
    /\ CanCall
    /\ n_calls' = n_calls + 1
    /\ start_features' = store_features
    /\ IF container_complete
         THEN /\ returned' = [features |-> store_features,
                              input_size |-> store_attrs["input_size"],
                              original_size |-> store_attrs["original_size"]]
              /\ encoder_calls' = <<>>
              /\ UNCHANGED <<store_features, store_attrs>>
         ELSE /\ encoder_calls' = <<0>>
              /\ store_features' = <<get_image_embedding(0)>>
              /\ store_attrs' = SetAttr(SetAttr(store_attrs, "input_size",
                                                predictor_input_size),
                                        "original_size", predictor_original_size)
              /\ returned' = [features |-> <<get_image_embedding(0)>>,
                              input_size |-> predictor_input_size,
                              original_size |-> predictor_original_size]
    /\ first_done' = Snapshot(n_calls + 1, store_features', store_attrs', returned')
    /\ epc' = "done"
    /\ UNCHANGED <<ndim, embedding_of, image_shape, loop_z, features, original_size,
                   input_size, embedding, size_from, volVars, bindVars>>

\* lines 186-194: _precompute_3d opens the container
precompute_3d ==
    /\ ndim = 3
    /\ CanCall
    /\ n_calls' = n_calls + 1
    /\ start_features' = store_features
    /\ encoder_calls' = <<>>
    /\ size_from' = None
    /\ loop_z' = 0
    /\ IF container_complete
         THEN IF "original_size" \in DOMAIN store_attrs
                THEN /\ features' = "dataset"
                     /\ original_size' = store_attrs["original_size"]
                     /\ input_size' = store_attrs["input_size"]
                     /\ epc' = "return"
                ELSE \* line 190 raises KeyError
                     /\ epc' = "error"
                     /\ UNCHANGED <<features, original_size, input_size>>
         ELSE /\ features' = (IF store_features # NoDataset THEN "dataset" ELSE "None")
              /\ original_size' = None
              /\ input_size' = None
              /\ epc' = "loop"
    /\ UNCHANGED <<ndim, embedding_of, image_shape, store_features, store_attrs,
                   embedding, returned, first_done, volVars, bindVars>>

\* lines 197-200: the chunk of slice z is there, continue
loop_skip ==
    /\ epc = "loop"
    /\ loop_z < EmbDepth
    /\ features = "dataset" /\ chunk_computed(loop_z)
    /\ loop_z' = loop_z + 1
    /\ UNCHANGED <<ndim, embedding_of, image_shape, store_features, store_attrs, epc,
                   features, original_size, input_size, embedding, returned, n_calls,
                   encoder_calls, size_from, start_features, first_done,
                   volVars, bindVars>>

\* variant of captured_from: the sizes are captured only while they are still
\* None, as _compute_3d does (lines 176-178), so they come from the first
\* slice computed
captured_from_first(slice) == IF size_from = None THEN <<slice>> ELSE size_from

\* line 207: the sizes are reassigned at every computed slice, so from then
\* on they are the ones read at this slice
captured_from(slice) == <<slice>>

\* lines 202-207: run the encoder on slice z
loop_encode ==
    /\ epc = "loop"
    /\ loop_z < EmbDepth
    /\ ~(features = "dataset" /\ chunk_computed(loop_z))
    /\ embedding' = get_image_embedding(loop_z)
    /\ original_size' = predictor_original_size
    /\ input_size' = predictor_input_size
    /\ size_from' = captured_from(loop_z)
    /\ encoder_calls' = Append(encoder_calls, loop_z)
    /\ epc' = "encoded"
    /\ UNCHANGED <<ndim, embedding_of, image_shape, store_features, store_attrs,
                   loop_z, features, returned, n_calls, start_features, first_done,
                   volVars, bindVars>>

\* lines 208-211: the first computed slice creates the dataset
create_dataset ==
    /\ epc = "encoded"
    /\ features = "None"
    /\ store_features' = [k \in 1 .. EmbDepth |-> 0]
    /\ features' = "dataset"
    /\ UNCHANGED <<ndim, embedding_of, image_shape, store_attrs, epc, loop_z,
                   original_size, input_size, embedding, returned, n_calls,
                   encoder_calls, size_from, start_features, first_done,
                   volVars, bindVars>>

\* line 212: features[z] = embedding
write_chunk ==
    /\ epc = "encoded"
    /\ features = "dataset"
    /\ store_features' = [store_features EXCEPT ![loop_z + 1] = embedding]
    /\ loop_z' = loop_z + 1
    /\ epc' = "loop"
    /\ UNCHANGED <<ndim, embedding_of, image_shape, store_attrs, features,
                   original_size, input_size, embedding, returned, n_calls,
                   encoder_calls, size_from, start_features, first_done,
                   volVars, bindVars>>

\* line 214: f.attrs["input_size"] = input_size
write_input_size ==
    /\ epc = "loop"
    /\ loop_z = EmbDepth
    /\ store_attrs' = SetAttr(store_attrs, "input_size", input_size)
    /\ epc' = "attrs"
    /\ UNCHANGED <<ndim, embedding_of, image_shape, store_features, loop_z, features,
                   original_size, input_size, embedding, returned, n_calls,
                   encoder_calls, size_from, start_features, first_done,
                   volVars, bindVars>>

\* line 215: f.attrs["original_size"] = original_size
write_original_size ==
    /\ epc = "attrs"
    /\ store_attrs' = SetAttr(store_attrs, "original_size", original_size)
    /\ epc' = "return"
    /\ UNCHANGED <<ndim, embedding_of, image_shape, store_features, loop_z, features,
                   original_size, input_size, embedding, returned, n_calls,
                   encoder_calls, size_from, start_features, first_done,
                   volVars, bindVars>>

\* lines 217-223: return the image_embeddings
return_embeddings ==
    /\ epc = "return"
    /\ returned' = [features |-> store_features, input_size |-> input_size,
                    original_size |-> original_size]
    /\ first_done' = Snapshot(n_calls, store_features, store_attrs, returned')
    /\ epc' = "done"
    /\ UNCHANGED <<ndim, embedding_of, image_shape, store_features, store_attrs,
                   loop_z, features, original_size, input_size, embedding, n_calls,
                   encoder_calls, size_from, start_features, volVars, bindVars>>

\* the process is killed between two steps of _precompute_3d: the container
\* stays as it is, the locals are lost (_precompute_2d is one step here, so
\* no kill falls inside it)
kill ==
    /\ epc \in {"loop", "encoded", "attrs", "return"}
    /\ epc' = "killed"
    /\ loop_z' = 0
    /\ features' = "None"
    /\ original_size' = None
    /\ input_size' = None
    /\ embedding' = 0
    /\ UNCHANGED <<ndim, embedding_of, image_shape, store_features, store_attrs,
                   returned, n_calls, encoder_calls, size_from, start_features,
                   first_done, volVars, bindVars>>

NextEmb ==
    \/ precompute_2d
    \/ precompute_3d
    \/ loop_skip
    \/ loop_encode
    \/ create_dataset
    \/ write_chunk
    \/ write_input_size
    \/ write_original_size
    \/ return_embeddings
    \/ kill

SpecEmb == InitEmb /\ [][NextEmb]_vars

\* ------------------------------------------------------------ set_precomputed
\* image_embeddings["features"] is [ndim, data]: with ndim = 4 the data is
\* the embedding of one image, with ndim = 5 one embedding per slice. The
\* records are those precompute_image_embeddings returns, so ndim is 4 or 5
\* (line 269), and an index that is given is one of the volume's slices.

Features2D == {[ndim |-> 4, data |-> e] : e \in Embeddings}
Features3D == {[ndim |-> 5, data |-> d] : d \in [1 .. EmbDepth -> Embeddings]}

EmbeddingRecords ==
    {[features |-> f, input_size |-> InputSizeOf(shape), original_size |-> shape] :
        f \in Features2D \cup Features3D, shape \in Shapes}

Predictors ==
    {NoPredictor} \cup
    {[features |-> f, original_size |-> shape, input_size |-> InputSizeOf(shape),
      is_image_set |-> TRUE] : f \in Features2D, shape \in Shapes}

\* variant of is_none: "not i", which also holds for the index 0
is_none_or_zero(x) == x = None \/ x = <<0>>

\* "i is None"
is_none(x) == x = None

InitBind ==
    /\ IdleVol
    /\ IdleEmb
    /\ image_embeddings \in EmbeddingRecords
    /\ index_i \in {None} \cup {<<k>> : k \in 0 .. (EmbDepth - 1)}
    /\ predictor \in Predictors
    /\ predictor_in = predictor
    /\ bind_pc = "call"

\* lines 256-285
set_precomputed ==
    /\ bind_pc = "call"
    /\ LET f == image_embeddings.features
       IN  IF \/ f.ndim = 5 /\ is_none(index_i)
              \/ f.ndim = 4 /\ ~is_none(index_i)
             THEN \* lines 270-273: ValueError
                  /\ bind_pc' = "raised"
                  /\ predictor' = predictor
             ELSE /\ predictor' =
                       [features |-> IF is_none(index_i) THEN f
                                     ELSE [ndim |-> 4, data |-> f.data[index_i[1] + 1]],
                        original_size |-> image_embeddings.original_size,
                        input_size |-> image_embeddings.input_size,
                        is_image_set |-> TRUE]
                  /\ bind_pc' = "returned"
    /\ UNCHANGED <<image_embeddings, index_i, predictor_in, volVars, embVars>>

NextBind == set_precomputed

SpecBind == InitBind /\ [][NextBind]_vars

\* ------------------------------------------- properties of _segment_volume

Annotated == {segmented_slices[i] : i \in DOMAIN segmented_slices}
CallsAt(z) == {i \in DOMAIN calls : calls[i].z = z}
WrittenAt(z) == {i \in CallsAt(z) : calls[i].written}
CallsOf(phase) == {i \in DOMAIN calls : calls[i].phase = phase}
NoFailure == \A i \in DOMAIN calls : ~calls[i].failed
Finished == pc = "done" /\ NoFailure

\* the annotated slices that bound the gap of a slice strictly inside the
\* annotated range
LowerOf(z) == CHOOSE a \in Annotated :
                 a < z /\ \A b \in Annotated : b < z => b <= a
UpperOf(z) == CHOOSE a \in Annotated :
                 a > z /\ \A b \in Annotated : b > z => b >= a

\* the phases that fill slice z when no stop flag is set
PhasesFor(z) ==
    IF z < z0 THEN {"below"}
    ELSE IF z > z1 THEN {"above"}
    ELSE IF UpperOf(z) - LowerOf(z) = 2 THEN {"combined"}
    ELSE {"bottom", "top", "middle"}

\* C1: with no stop flag, threshold 0 and an oracle that never fails, a
\* finished call has passed every non-annotated slice to the oracle exactly
\* once and written it, from the phase that owns it (below s_0 the downward
\* walk, above s_n the upward walk, inside a gap that gap's interpolation),
\* and no annotated slice was segmented or overwritten.
C1_EverySliceFilledOnce ==
    (~stop_lower /\ ~stop_upper /\ iou_threshold = 0 /\ NoFailure) =>
        /\ \A z \in Annotated : CallsAt(z) = {} /\ seg[z] = seg_in[z]
        /\ pc = "done" =>
             \A z \in Slices \ Annotated :
                /\ Cardinality(CallsAt(z)) = 1
                /\ \A i \in CallsAt(z) :
                     /\ calls[i].written
                     /\ calls[i].phase \in PhasesFor(z)
                     /\ seg[z] = calls[i].out

C1_Witness ==
    /\ pc = "done" /\ NoFailure
    /\ ~stop_lower /\ ~stop_upper /\ iou_threshold = 0
    /\ z0 > 0 /\ z1 < Depth - 1
    /\ CallsOf("combined") # {}
    /\ \E z \in Slices : seg[z] # EmptyMask

\* iou < iou_threshold computed as in util.compute_iou, with eps = 1e-7 and
\* threshold t / 100, both sides scaled by 100 * 10^7
IouBelowThreshold(mask1, mask2, t) ==
    100 * Cardinality(mask1 \cap mask2) * 10000000
        < t * (Cardinality(mask1 \cup mask2) * 10000000 + 1)

\* the slices from z to the end of the volume that the walk of an outward
\* phase moves toward
Outward(phase, z) == IF phase = "below" THEN 0 .. z ELSE z .. (Depth - 1)
\* the slices between the annotated range and z that the walk has passed
Passed(phase, z) == IF phase = "below" THEN (z + 1) .. (z0 - 1)
                                       ELSE (z1 + 1) .. (z - 1)
PromptSlice(phase, z) == IF phase = "below" THEN z + 1 ELSE z - 1

\* C2: in an outward walk every new mask is compared with the mask it was
\* prompted from; the result is written iff IOU >= iou_threshold, and at the
\* first slice z with IOU < iou_threshold the walk ends: no further call of
\* that walk, z and the slices farther out keep their contents, and exactly
\* the slices passed before z are written. With threshold 0.99, a first step
\* that is written and a second that returns the empty mask leave exactly one
\* written slice on that side.
C2_OutwardWalkStopsAtLowIou ==
    \A phase \in {"below", "above"} :
        /\ \A i \in CallsOf(phase) :
             /\ calls[i].from = {PromptSlice(phase, calls[i].z)}
             /\ calls[i].prompt = seg[PromptSlice(phase, calls[i].z)]
             /\ ~calls[i].failed =>
                  (calls[i].written <=>
                     ~IouBelowThreshold(calls[i].prompt, calls[i].out, iou_threshold))
             /\ (~calls[i].failed /\ ~calls[i].written) =>
                  /\ \A j \in CallsOf(phase) : j <= i
                  /\ \A z \in Outward(phase, calls[i].z) :
                       WrittenAt(z) = {} /\ seg[z] = seg_in[z]
                  /\ \A z \in Passed(phase, calls[i].z) :
                       Cardinality(WrittenAt(z)) = 1
        /\ \A i, j \in CallsOf(phase) :
             (/\ iou_threshold = 99
              /\ i < j
              /\ \A k \in CallsOf(phase) : k >= i
              /\ \A k \in CallsOf(phase) : k > i => k >= j
              /\ calls[i].written
              /\ ~calls[j].failed /\ calls[j].out = EmptyMask)
             => Cardinality({k \in CallsOf(phase) : calls[k].written}) = 1

C2_Witness ==
    /\ pc = "done"
    /\ iou_threshold = 99
    /\ \A phase \in {"below", "above"} :
         /\ Cardinality(CallsOf(phase)) = 2
         /\ Cardinality({k \in CallsOf(phase) : calls[k].written}) = 1
         /\ \E k \in CallsOf(phase) :
              ~calls[k].failed /\ ~calls[k].written /\ calls[k].out = EmptyMask

\* C5 (as claimed): after a call, the number of progress_bar.update(1) calls
\* equals the number of slices written by the call.
C5_ProgressPerWrittenSlice ==
    pc = "done" =>
        progress_bar = Cardinality({i \in DOMAIN calls : calls[i].written})

\* C6: whatever the threshold and the stop flags, a finished call has written
\* every non-annotated slice strictly between the lowest and the highest
\* annotated slice: no IOU stop inside the annotated range.
C6_InterpolationAlwaysCompletes ==
    Finished =>
        \A z \in ((z0 + 1) .. (z1 - 1)) \ Annotated :
            /\ Cardinality(WrittenAt(z)) = 1
            /\ \A i \in WrittenAt(z) : seg[z] = calls[i].out

C6_Witness ==
    /\ Finished
    /\ iou_threshold = 99
    /\ \E i \in DOMAIN calls :
         /\ calls[i].phase \in {"bottom", "top", "from_upper", "from_lower"}
         /\ calls[i].written
         /\ IouBelowThreshold(calls[i].prompt, calls[i].out, iou_threshold)

\* the slices strictly inside the first and the last gap
FirstGap == (z0 + 1) .. (segmented_slices[2] - 1)
LastGap == (segmented_slices[Len(segmented_slices) - 1] + 1) .. (z1 - 1)

\* the calls on the slices of gap G are one per slice, all of one phase, each
\* prompted by the neighbour at z + from_offset, in the walk's order
SingleWalk(G, phase, from_offset) ==
    /\ \A z \in G :
         /\ Cardinality(CallsAt(z)) = 1
         /\ \A i \in CallsAt(z) :
              /\ calls[i].written
              /\ calls[i].phase = phase
              /\ calls[i].from = {z + from_offset}
    /\ \A i, j \in DOMAIN calls :
         (calls[i].z \in G /\ calls[j].z \in G /\ i < j) =>
             (calls[j].z - calls[i].z) * from_offset < 0

\* C7: with stop_lower no slice below s_0 is written and the first gap is
\* filled by one walk from s_1 down to s_0 + 1, each slice prompted by the
\* slice above it, with no combined call whatever the gap's size; with
\* stop_upper no slice above s_n is written and the last gap is filled by one
\* walk upward from s_{n-1}, unless that gap is also the first and stop_lower
\* is set.
C7_StopFlags ==
    /\ stop_lower => \A z \in 0 .. (z0 - 1) : CallsAt(z) = {} /\ seg[z] = seg_in[z]
    /\ stop_upper => \A z \in (z1 + 1) .. (Depth - 1) :
                        CallsAt(z) = {} /\ seg[z] = seg_in[z]
    /\ (Finished /\ Len(segmented_slices) >= 2) =>
         /\ stop_lower => SingleWalk(FirstGap, "from_upper", 1)
         /\ (stop_upper /\ ~(stop_lower /\ Len(segmented_slices) = 2)) =>
                SingleWalk(LastGap, "from_lower", -1)

C7_Witness ==
    /\ Finished
    /\ stop_lower /\ stop_upper
    /\ Len(segmented_slices) = 3
    /\ segmented_slices[2] - z0 = 2
    /\ z1 - segmented_slices[2] = 2

C7_WitnessOneGap ==
    /\ Finished
    /\ stop_lower /\ stop_upper
    /\ Len(segmented_slices) = 2
    /\ z1 - z0 = 4
    /\ Cardinality(CallsOf("from_upper")) = 3

\* C9: when the oracle fails at slice z the call ends there: the failing call
\* is the last call made (no retry, nothing after it), every slice written
\* before keeps the value written, and z and every slice not yet processed
\* are as they were passed in.
C9_FailurePropagates ==
    /\ \A i \in DOMAIN calls : calls[i].failed => (i = Len(calls) /\ pc = "failed")
    /\ pc = "failed" =>
         /\ calls # <<>> /\ calls[Len(calls)].failed
         /\ WrittenAt(calls[Len(calls)].z) = {}
         /\ \A z \in Slices :
              /\ Cardinality(WrittenAt(z)) <= 1
              /\ \A i \in WrittenAt(z) : seg[z] = calls[i].out
              /\ WrittenAt(z) = {} => seg[z] = seg_in[z]

C9_Witness ==
    /\ pc = "failed"
    /\ Len(calls) >= 3
    /\ \E i \in DOMAIN calls : calls[i].written /\ calls[i].out # EmptyMask
    /\ calls[Len(calls)].phase = "middle"

\* the pairs of consecutive annotated slices more than 2 apart that no stop
\* flag governs
GeneralGaps ==
    {g \in 1 .. (Len(segmented_slices) - 1) :
        /\ segmented_slices[g + 1] - segmented_slices[g] > 2
        /\ ~(g = 1 /\ stop_lower)
        /\ ~(g = Len(segmented_slices) - 1 /\ stop_upper)}

ZsOf(phase, lo, hi) == {calls[i].z : i \in {j \in CallsOf(phase) :
                                               lo < calls[j].z /\ calls[j].z < hi}}

\* C10: in a gap d > 2 that no stop flag governs, with mid = (s_i + s_{i+1})
\* div 2, the walk from the bottom writes s_i+1 .. mid-1 (d even) or
\* s_i+1 .. mid (d odd), the walk from the top writes s_{i+1}-1 down to
\* mid+1, and the combined call on mid, prompted by mask[mid-1] OR
\* mask[mid+1], is made iff d is even; every slice of the gap is segmented
\* exactly once.
C10_GapParity ==
    Finished =>
        \A g \in GeneralGaps :
            LET lo == segmented_slices[g]
                hi == segmented_slices[g + 1]
                mid == (lo + hi) \div 2
                even == (hi - lo) % 2 = 0
            IN  /\ ZsOf("bottom", lo, hi) =
                      (lo + 1) .. (IF even THEN mid - 1 ELSE mid)
                /\ ZsOf("top", lo, hi) = (mid + 1) .. (hi - 1)
                /\ ZsOf("middle", lo, hi) = (IF even THEN {mid} ELSE {})
                /\ \A i \in CallsOf("middle") :
                     calls[i].z = mid =>
                         /\ calls[i].from = {mid - 1, mid + 1}
                         /\ calls[i].prompt = seg[mid - 1] \cup seg[mid + 1]
                /\ \A z \in (lo + 1) .. (hi - 1) :
                     /\ Cardinality(CallsAt(z)) = 1
                     /\ \A i \in CallsAt(z) : calls[i].written

C10_Witness ==
    /\ Finished
    /\ \E g \in GeneralGaps : (segmented_slices[g + 1] - segmented_slices[g]) % 2 = 0
    /\ \E i \in CallsOf("middle") : Cardinality(calls[i].prompt) = 2

C10_WitnessOdd ==
    /\ Finished
    /\ \E g \in GeneralGaps : (segmented_slices[g + 1] - segmented_slices[g]) % 2 = 1

\* ------------------------------- properties of precompute_image_embeddings

NoZeroEmbedding == \A k \in DOMAIN embedding_of : embedding_of[k] # 0

\* the chunk of a slice is missing or all-zero in a dataset
ChunkMissing(dataset, slice) == dataset = NoDataset \/ dataset[slice + 1] = 0

EncodedSlices == {encoder_calls[k] : k \in DOMAIN encoder_calls}

\* C3: for a 3D input with a container, when no slice embeds to all-zero,
\* a call that follows any number of killed calls runs the encoder only on
\* slices whose chunk was missing or all-zero when the call began, once each,
\* and a call that returns leaves, and returns, the features of a run that
\* was never interrupted.
C3_ResumedRunEqualsUninterrupted ==
    (ndim = 3 /\ NoZeroEmbedding) =>
        /\ \A k \in DOMAIN encoder_calls : ChunkMissing(start_features, encoder_calls[k])
        /\ Cardinality(EncodedSlices) = Len(encoder_calls)
        /\ epc = "done" =>
             /\ EncodedSlices =
                  {slice \in 0 .. (EmbDepth - 1) : ChunkMissing(start_features, slice)}
             /\ store_features = compute_3d_features
             /\ returned.features = compute_3d_features

C3_Witness ==
    /\ ndim = 3 /\ NoZeroEmbedding
    /\ epc = "done"
    /\ n_calls >= 3
    /\ EncodedSlices = {EmbDepth - 1}
    /\ Cardinality({embedding_of[k] : k \in DOMAIN embedding_of}) > 1

\* C4: once a call has returned on a container (2D or 3D), every later call
\* on it runs the encoder on nothing, returns what the first call returned,
\* and the container's features and attributes stay as the first call left
\* them.
C4_CompleteContainerIsReused ==
    first_done.done =>
        /\ store_features = first_done.features
        /\ store_attrs = first_done.attrs
        /\ n_calls > first_done.call =>
             /\ encoder_calls = <<>>
             /\ epc = "done" => returned = first_done.result

C4_Witness ==
    /\ first_done.done
    /\ ndim = 3
    /\ n_calls > first_done.call
    /\ epc = "done"
    /\ returned.input_size # None

C4_Witness2D ==
    /\ first_done.done
    /\ ndim = 2
    /\ n_calls > first_done.call
    /\ epc = "done"

\* ------------------------------------------- properties of set_precomputed

\* C8: set_precomputed raises exactly when the features are 5-dimensional
\* and no index is given, or 4-dimensional and an index is given; when it
\* raises, the predictor is as it was passed in; otherwise the predictor
\* holds features[i] (3D) or the whole features (2D), the record's
\* original_size and input_size, and is_image_set.
C8_SetPrecomputed ==
    LET f == image_embeddings.features
        mismatch == \/ f.ndim = 5 /\ index_i = None
                    \/ f.ndim = 4 /\ index_i # None
    IN  bind_pc \in {"raised", "returned"} =>
            /\ bind_pc = "raised" <=> mismatch
            /\ bind_pc = "raised" => predictor = predictor_in
            /\ bind_pc = "returned" =>
                 /\ f.ndim = 5 => /\ predictor.features.ndim = 4
                                  /\ predictor.features.data = f.data[index_i[1] + 1]
                 /\ f.ndim = 4 => predictor.features = f
                 /\ predictor.original_size = image_embeddings.original_size
                 /\ predictor.input_size = image_embeddings.input_size
                 /\ predictor.is_image_set

C8_Witness ==
    /\ bind_pc = "returned"
    /\ image_embeddings.features.ndim = 5
    /\ index_i = <<0>>
    /\ predictor_in.is_image_set
    /\ predictor # predictor_in

C8_WitnessRaised ==
    /\ bind_pc = "raised"
    /\ image_embeddings.features.ndim = 4
    /\ index_i = <<0>>
    /\ predictor_in.is_image_set

\* the gaps with exactly one slice in between that no stop flag governs
CombinedGaps ==
    {g \in 1 .. (Len(segmented_slices) - 1) :
        /\ segmented_slices[g + 1] - segmented_slices[g] = 2
        /\ ~(g = 1 /\ stop_lower)
        /\ ~(g = Len(segmented_slices) - 1 /\ stop_upper)}

\* C11: in a gap of exactly two between annotated slices a and b that no stop
\* flag governs, the middle slice a + 1 is never touched by a directional
\* walk: every call on it is the combined call, no call was made on it
\* before, and the call is prompted from both a and b with the pixelwise OR
\* of their masks as annotated (a pixel is in the prompt iff it is foreground
\* in a or in b). When the run returns without an exception there has been
\* exactly one such call per gap of this kind and its result was written.
C11_CombinedMaskGap ==
    [][/\ calls' # calls =>
            LET c == calls'[Len(calls')]
                a == c.z - 1
                b == c.z + 1
            IN  /\ c.phase = "combined" =>
                     /\ a \in Annotated
                     /\ b \in Annotated
                     /\ c.from = {a, b}
                     /\ seg[a] = seg_in[a]
                     /\ seg[b] = seg_in[b]
                     /\ \A p \in Pixels :
                          p \in c.prompt <=> (p \in seg[a] \/ p \in seg[b])
                /\ (\E g \in CombinedGaps : c.z = segmented_slices[g] + 1) =>
                     /\ c.phase = "combined"
                     /\ CallsAt(c.z) = {}
       /\ (pc # "done" /\ pc' = "done" /\ \A i \in DOMAIN calls' : ~calls'[i].failed) =>
            \A g \in CombinedGaps :
                LET at == {i \in DOMAIN calls' : calls'[i].z = segmented_slices[g] + 1}
                IN  /\ Cardinality(at) = 1
                    /\ \A i \in at : calls'[i].written /\ calls'[i].phase = "combined"
      ]_vars

\* a finished run with a combined gap between the masks {(1,1)} and {(2,2)}:
\* the one call on the middle slice was prompted with both pixels
C11_Witness ==
    /\ Finished
    /\ \E g \in CombinedGaps :
         LET a == segmented_slices[g]
         IN  /\ seg_in[a] = {"p11"}
             /\ seg_in[a + 2] = {"p22"}
             /\ \E i \in CallsAt(a + 1) :
                  /\ calls[i].phase = "combined"
                  /\ calls[i].prompt = {"p11", "p22"}

\* the direction of the walk of a phase: the walk moves from z - increment to z
IncrementOf(phase) ==
    IF phase \in {"above", "from_lower", "bottom"} THEN 1 ELSE -1

\* the content of slice s when call i was made: the result of the last call
\* before i that wrote s, or the input mask if no earlier call wrote it
WrittenBefore(s, i) == {j \in 1 .. (i - 1) : calls[j].z = s /\ calls[j].written}
ContentBefore(s, i) ==
    IF WrittenBefore(s, i) = {} THEN seg_in[s]
    ELSE calls[CHOOSE j \in WrittenBefore(s, i) :
                 \A k \in WrittenBefore(s, i) : k <= j].out

\* C12: every call of a directional walk on slice z (outward, towards a stop
\* flag's slice, or interpolating) is prompted from the adjacent slice
\* z - increment, and every call of a union-combine step from the two
\* neighbours z - 1 and z + 1; each prompting slice is annotated or was
\* written by an earlier call of this run, and the prompt is the content of
\* the prompting slice(s) at the time of the call, which is what the last
\* earlier call on that slice wrote, or the annotation. No call is prompted
\* from a slice that is still unwritten.
C12_PromptsAreWritten ==
    [][calls' # calls =>
          LET c == calls'[Len(calls')]
          IN  /\ c.from = IF c.phase \in {"combined", "middle"}
                            THEN {c.z - 1, c.z + 1}
                            ELSE {c.z - IncrementOf(c.phase)}
              /\ \A s \in c.from :
                   /\ s \in Slices
                   /\ s \in Annotated \/ WrittenAt(s) # {}
                   /\ seg[s] = ContentBefore(s, Len(calls'))
              /\ c.prompt = UNION {seg[s] : s \in c.from}
      ]_vars

\* a finished run with a union-combine step in the middle of an even gap:
\* both of its prompts were written earlier in the run, by the walk from the
\* bottom and by the walk from the top
C12_Witness ==
    /\ Finished
    /\ \E i \in CallsOf("middle") :
         /\ calls[i].from \cap Annotated = {}
         /\ calls[i].prompt # EmptyMask
         /\ \A s \in calls[i].from : WrittenBefore(s, i) # {}

\* a finished run in which a step of a directional walk was prompted from a
\* slice that an earlier step of the walk had written with a non-empty mask
C12_WitnessWalk ==
    /\ Finished
    /\ \E i \in DOMAIN calls :
         /\ calls[i].phase \notin {"combined", "middle"}
         /\ calls[i].from \cap Annotated = {}
         /\ calls[i].prompt # EmptyMask

C14_CompletionMarker ==
    (ndim = 3 /\ epc # "attrs" /\ "input_size" \in DOMAIN store_attrs) =>
        /\ store_features = compute_3d_features
        /\ store_attrs["input_size"] # None
        /\ store_attrs["input_size"] = InputSizeOf(image_shape)
        /\ "original_size" \in DOMAIN store_attrs =>
             /\ store_attrs["original_size"] # None
             /\ store_attrs["original_size"] = image_shape

\* a finished call that found every chunk in the container and computed
\* nothing has written None as both sizes
C14_NoneMetadata ==
    /\ ndim = 3
    /\ epc = "done"
    /\ encoder_calls = <<>>
    /\ store_features = compute_3d_features
    /\ store_attrs = [k \in {"input_size", "original_size"} |-> None]

\* a call killed between lines 214 and 215 has left input_size without
\* original_size, and the next call has failed at line 190
C14_InputSizeOnly ==
    /\ ndim = 3
    /\ epc = "error"
    /\ DOMAIN store_attrs = {"input_size"}

====
